---- MODULE Spec2Model ----
(***************************************************************************)
(* A model of src/main.rs: the hand-written bencode decoder                *)
(* (decode_bencoded_value, get_end_index_for_next_datatype) as a machine   *)
(* with an explicit call stack, and the `info` command of main.            *)
(*                                                                         *)
(* Bytes are their ASCII codes (0..255).  The decoder takes a &str; the    *)
(* inputs here are ASCII, so a char is a byte and every index is a char    *)
(* boundary.  Indices are 0-based as in the source; TLA+ sequences are     *)
(* 1-based, so byte i of s is s[i + 1].                                    *)
(***************************************************************************)
EXTENDS Integers, Sequences, FiniteSets, TLC

\* ------------------------------------------------------------------ bytes

CharZero  == 48
CharNine  == 57
CharColon == 58
CharMinus == 45
CharPlus  == 43
CharD     == 100
CharE     == 101
CharI     == 105
CharL     == 108

\* char::is_digit(10)
IsDigit(b) == b >= CharZero /\ b <= CharNine

\* &s[a..b] with 0-based a inclusive, b exclusive (the caller has checked the range)
Slice(s, a, b) == [k \in 1..(b - a) |-> s[a + k]]

\* s.starts_with(c) / s.ends_with(c) for a one-byte pattern
StartsWith(s, c) == Len(s) > 0 /\ s[1] = c
EndsWith(s, c)   == Len(s) > 0 /\ s[Len(s)] = c

\* str::find(c): the 0-based index of the first c, -1 for None
Find(s, c) ==
    IF \E k \in 1..Len(s) : s[k] = c
    THEN (CHOOSE k \in 1..Len(s) : s[k] = c /\ \A j \in 1..(k - 1) : s[j] # c) - 1
    ELSE -1

RECURSIVE DigitsValue(_)
\* the number a run of decimal digits denotes
DigitsValue(s) ==
    IF Len(s) = 0 THEN 0
    ELSE 10 * DigitsValue(SubSeq(s, 1, Len(s) - 1)) + (s[Len(s)] - CharZero)

\* str::parse::<i64>(): an optional '+' or '-', then one or more digits.
\* [ok |-> FALSE] is Err.  (The i64 range is not reached by inputs this short.)
ParseI64(s) ==
    LET signed == Len(s) > 0 /\ s[1] \in {CharPlus, CharMinus}
        digits == IF signed THEN SubSeq(s, 2, Len(s)) ELSE s
    IN  IF Len(digits) = 0 \/ \E k \in 1..Len(digits) : ~IsDigit(digits[k])
        THEN [ok |-> FALSE, n |-> 0]
        ELSE [ok |-> TRUE,
              n  |-> IF signed /\ s[1] = CharMinus
                     THEN 0 - DigitsValue(digits) ELSE DigitsValue(digits)]

RECURSIVE NatToBytes(_)
\* the decimal digits of a natural number, as i64's Display writes them
NatToBytes(n) ==
    IF n < 10 THEN <<CharZero + n>>
    ELSE Append(NatToBytes(n \div 10), CharZero + (n % 10))

IntToBytes(n) == IF n < 0 THEN <<CharMinus>> \o NatToBytes(0 - n) ELSE NatToBytes(n)

\* ------------------------------------------------------- bencode values
\* A bencode term: [bs |-> bytes], [int |-> n], [list |-> <<term, ...>>] or
\* [dict |-> <<[k |-> bytes, v |-> term], ...>>] with the pairs in wire order.

RECURSIVE Encode(_), EncodeAll(_), EncodePairs(_)
Encode(v) ==
    IF "bs" \in DOMAIN v THEN NatToBytes(Len(v.bs)) \o <<CharColon>> \o v.bs
    ELSE IF "int" \in DOMAIN v THEN <<CharI>> \o IntToBytes(v.int) \o <<CharE>>
    ELSE IF "list" \in DOMAIN v THEN <<CharL>> \o EncodeAll(v.list) \o <<CharE>>
    ELSE <<CharD>> \o EncodePairs(v.dict) \o <<CharE>>
EncodeAll(s) == IF Len(s) = 0 THEN <<>> ELSE Encode(Head(s)) \o EncodeAll(Tail(s))
EncodePairs(s) ==
    IF Len(s) = 0 THEN <<>>
    ELSE Encode([bs |-> Head(s).k]) \o Encode(Head(s).v) \o EncodePairs(Tail(s))

\* A JSON value (serde_json::Value): [str |-> bytes], [num |-> n],
\* [arr |-> <<value, ...>>] or [obj |-> a function from key bytes to value].

\* serde_json::Map::insert: the last write to a key wins
MapInsert(m, key, value) ==
    [k \in (DOMAIN m) \cup {key} |-> IF k = key THEN value ELSE m[k]]

RECURSIVE ToJson(_), PairsToMap(_)
\* the JSON value a bencode term denotes
ToJson(v) ==
    IF "bs" \in DOMAIN v THEN [str |-> v.bs]
    ELSE IF "int" \in DOMAIN v THEN [num |-> v.int]
    ELSE IF "list" \in DOMAIN v THEN [arr |-> [k \in 1..Len(v.list) |-> ToJson(v.list[k])]]
    ELSE [obj |-> PairsToMap(v.dict)]
PairsToMap(s) ==
    IF Len(s) = 0 THEN <<>>
    ELSE MapInsert(PairsToMap(SubSeq(s, 1, Len(s) - 1)), s[Len(s)].k, ToJson(s[Len(s)].v))

\* ------------------------------------------------------------- inputs

\* the longest encoding of a generated well-formed term
MaxEnc == 9
\* the longest payload of a generated byte string
MaxStr == 2
\* the longest arbitrary byte sequence
MaxLen == 4

PayloadBytes == {97, CharE}
IntAtoms == {0, 7, -7, 52, -52}

RECURSIVE Payloads(_)
Payloads(k) ==
    IF k = 0 THEN {<<>>}
    ELSE {<<b>> \o p : b \in PayloadBytes, p \in Payloads(k - 1)}

\* byte strings of at most MaxStr bytes whose encoding is at most n bytes long
StrAtoms(n) ==
    UNION {{[bs |-> p] : p \in Payloads(k)} :
           k \in {j \in 0..MaxStr : Len(NatToBytes(j)) + 1 + j <= n}}

EncLen(v) == Len(Encode(v))

IntTerms(n) == {[int |-> i] : i \in {j \in IntAtoms : Len(IntToBytes(j)) + 2 <= n}}

KeysOf(pairs) == {pairs[k].k : k \in 1..Len(pairs)}

\* Row n + 1 of the table, from the rows before it.  A row holds, for the budget n:
\* terms, the terms whose encoding is at most n bytes long; seqs, the sequences of
\* terms whose encodings add up to at most n bytes; pairs, the same for key/value
\* pairs with distinct keys (a dict's pairs, in any wire order).
TermRow(n, table) ==
    LET terms ==
            IF n < 2 THEN {}
            ELSE StrAtoms(n) \cup IntTerms(n)
                 \cup {[list |-> s] : s \in table[n - 1].seqs}
                 \cup {[dict |-> s] : s \in table[n - 1].pairs}
        seqs ==
            {<<>>} \cup UNION {{<<v>> \o r : r \in table[n - EncLen(v) + 1].seqs} : v \in terms}
        pairs ==
            {<<>>} \cup
            UNION {UNION {{<<[k |-> key.bs, v |-> v]>> \o r :
                             r \in {q \in table[n - EncLen(key) - EncLen(v) + 1].pairs :
                                        key.bs \notin KeysOf(q)}} :
                          v \in table[n - EncLen(key) + 1].terms} :
                   key \in StrAtoms(n)}
    IN  [terms |-> terms, seqs |-> seqs, pairs |-> pairs]

RECURSIVE TermTable(_)
\* rows 0..n
TermTable(n) ==
    IF n < 0 THEN <<>>
    ELSE LET table == TermTable(n - 1) IN Append(table, TermRow(n, table))

\* every term (over the atoms above) whose encoding is at most MaxEnc bytes long
WellFormedTerms == TermTable(MaxEnc)[MaxEnc + 1].terms

\* ------------------------------------------------------------- state

VARIABLES
    call,      \* the outermost call: the function and its arguments
    source,    \* where the argument came from: [term |-> t] (it is Encode(t)) or [raw |-> bytes]
    stack,     \* the call stack, outermost frame first
    ret,       \* the value the last finished call returned
    status,    \* "running", "returned", or "panicked" (the process aborts)
    site,      \* the panic's place in the source, "" when none
    out        \* the lines printed to stdout so far

vars == <<call, source, stack, ret, status, site, out>>

\* a frame of decode_bencoded_value(encoded_value), at its first line
DecodeFrame(encoded_value) ==
    [fn |-> "decode", pc |-> "entry", encoded_value |-> encoded_value,
     values |-> <<>>, map |-> <<>>, key |-> <<>>,
     next_first_index |-> 0, end_index |-> 0, next_end_index |-> 0]

\* a frame of get_end_index_for_next_datatype(encoded_value, start_index, end_index)
GetEndFrame(encoded_value, start_index, end_index) ==
    [fn |-> "get_end", pc |-> "entry", encoded_value |-> encoded_value,
     start_index |-> start_index, end_index |-> end_index, next_index |-> 0]

Top == stack[Len(stack)]
Running(fn, pc) == status = "running" /\ Len(stack) > 0 /\ Top.fn = fn /\ Top.pc = pc

\* the top frame moves on in place
Goto(frame) ==
    /\ stack' = [stack EXCEPT ![Len(stack)] = frame]
    /\ UNCHANGED <<call, source, ret, status, site, out>>

\* the top frame calls: it waits at `frame.pc` under the callee's new frame
Call(frame, callee) ==
    /\ stack' = Append([stack EXCEPT ![Len(stack)] = frame], callee)
    /\ UNCHANGED <<call, source, ret, status, site, out>>

\* the top frame returns v to its caller, or out of the outermost call
Return(v) ==
    /\ stack' = SubSeq(stack, 1, Len(stack) - 1)
    /\ ret' = v
    /\ status' = IF Len(stack) = 1 THEN "returned" ELSE "running"
    /\ UNCHANGED <<call, source, site, out>>

\* unwrap / expect / panic! / a slice out of range: the thread unwinds, the process aborts
Panic(where) ==
    /\ status' = "panicked"
    /\ site' = where
    /\ UNCHANGED <<call, source, stack, ret, out>>

\* &s[a..=b] is in range (0-based, both inclusive); out of range panics
RangeOk(s, a, b) == a <= b + 1 /\ b + 1 <= Len(s)

\* --------------------------------------- get_end_index_for_next_datatype

\* encoded_value_range, line 36
RangeOf(f) == Slice(f.encoded_value, f.start_index, f.end_index + 1)

GetEndReady(pc) ==
    /\ Running("get_end", pc)
    /\ RangeOk(Top.encoded_value, Top.start_index, Top.end_index)
    /\ Len(RangeOf(Top)) > 0

\* lines 36, 39: the slice is out of range, or empty (chars().next().unwrap())
GetEndBadRange ==
    /\ Running("get_end", "entry")
    /\ IF ~RangeOk(Top.encoded_value, Top.start_index, Top.end_index)
       THEN Panic("get_end: slice out of range")
       ELSE Len(RangeOf(Top)) = 0 /\ Panic("get_end: unwrap on empty range")

\* line 46: end_index = colon_index + size
StringEnd(colon_index, size) == colon_index + size

\* lines 39-47
GetEndString ==
    /\ GetEndReady("entry")
    /\ IsDigit(RangeOf(Top)[1])
    /\ LET colon_index == Find(RangeOf(Top), CharColon)
           size == ParseI64(Slice(RangeOf(Top), 0, colon_index))
       IN  IF colon_index < 0 THEN Panic("get_end: : is missing")
           ELSE IF ~size.ok THEN Panic("get_end: size is not a number")
           ELSE Return([idx |-> Top.start_index + StringEnd(colon_index, size.n)])

\* lines 49-51
GetEndInteger ==
    /\ GetEndReady("entry")
    /\ ~IsDigit(RangeOf(Top)[1])
    /\ StartsWith(RangeOf(Top), CharI)
    /\ LET e_index == Find(RangeOf(Top), CharE)
       IN  IF e_index < 0 THEN Panic("get_end: unwrap on find('e')")
           ELSE Return([idx |-> Top.start_index + e_index])

\* lines 53-54
GetEndListBegin ==
    /\ GetEndReady("entry")
    /\ StartsWith(RangeOf(Top), CharL)
    /\ Goto([Top EXCEPT !.pc = "list_scan", !.next_index = 1])

\* lines 73-74
GetEndDictBegin ==
    /\ GetEndReady("entry")
    /\ StartsWith(RangeOf(Top), CharD)
    /\ Goto([Top EXCEPT !.pc = "dict_scan", !.next_index = 1])

\* no branch taken: line 93 adds start_index to the end_index parameter
GetEndOther ==
    /\ GetEndReady("entry")
    /\ ~IsDigit(RangeOf(Top)[1])
    /\ RangeOf(Top)[1] \notin {CharI, CharL, CharD}
    /\ Return([idx |-> Top.start_index + Top.end_index])

ChildStartSame(start_index, next_index) == start_index

\* lines 65 and 85: where the next element starts in the whole buffer
ChildStart(start_index, next_index) == start_index + next_index

ScanAdvanceOffByOne(ended, start_index) == ended - start_index

\* lines 64-67 and 84-87: the cursor after the element that ended at `ended`
ScanAdvance(ended, start_index) == ended + 1 - start_index

\* one test of a scanning loop (lines 55-65, 75-85): break and return, or recurse
Scan(waiting) ==
    IF Top.next_index > Len(RangeOf(Top))
    THEN Panic("get_end: unwrap on get(next_index..)")
    ELSE IF Top.next_index < Len(RangeOf(Top)) /\ RangeOf(Top)[Top.next_index + 1] = CharE
    THEN Return([idx |-> Top.start_index + Top.next_index])
    ELSE Call([Top EXCEPT !.pc = waiting],
              GetEndFrame(Top.encoded_value,
                          ChildStart(Top.start_index, Top.next_index), Top.end_index))

GetEndListScan == GetEndReady("list_scan") /\ Scan("list_scanned")
GetEndDictScan == GetEndReady("dict_scan") /\ Scan("dict_scanned")

\* lines 64-67
GetEndListAdvance ==
    /\ Running("get_end", "list_scanned")
    /\ Goto([Top EXCEPT !.pc = "list_scan",
                        !.next_index = ScanAdvance(ret.idx, Top.start_index)])

\* lines 84-87
GetEndDictAdvance ==
    /\ Running("get_end", "dict_scanned")
    /\ Goto([Top EXCEPT !.pc = "dict_scan",
                        !.next_index = ScanAdvance(ret.idx, Top.start_index)])

GetEndStep ==
    \/ GetEndBadRange
    \/ GetEndString
    \/ GetEndInteger
    \/ GetEndListBegin
    \/ GetEndDictBegin
    \/ GetEndOther
    \/ GetEndListScan
    \/ GetEndListAdvance
    \/ GetEndDictScan
    \/ GetEndDictAdvance

\* ------------------------------------------------- decode_bencoded_value

\* line 99: chars().next().unwrap() on an empty &str
DecodeEmpty ==
    /\ Running("decode", "entry")
    /\ Len(Top.encoded_value) = 0
    /\ Panic("decode: unwrap on empty input")

\* line 107: everything after the first colon
StringPayload(encoded_value, colon_index) ==
    Slice(encoded_value, colon_index + 1, Len(encoded_value))

\* lines 99-108
DecodeString ==
    /\ Running("decode", "entry")
    /\ Len(Top.encoded_value) > 0
    /\ IsDigit(Top.encoded_value[1])
    /\ LET colon_index == Find(Top.encoded_value, CharColon)
       IN  IF colon_index < 0 THEN Panic("decode: : is missing")
           ELSE Return([str |-> StringPayload(Top.encoded_value, colon_index)])

\* the `starts_with(c) && ends_with("e")` tests of lines 110, 124, 143
Framed(encoded_value, c) ==
    /\ Len(encoded_value) > 0
    /\ ~IsDigit(encoded_value[1])
    /\ StartsWith(encoded_value, c)
    /\ EndsWith(encoded_value, CharE)

\* lines 115-121: the text between the leading i and the trailing e
IntegerText(encoded_value) == Slice(encoded_value, 1, Len(encoded_value) - 1)

\* lines 110-122
DecodeInteger ==
    /\ Running("decode", "entry")
    /\ Framed(Top.encoded_value, CharI)
    /\ LET number == ParseI64(IntegerText(Top.encoded_value))
       IN  IF ~number.ok THEN Panic("decode: unwrap on parse::<i64>")
           ELSE Return([num |-> number.n])

\* lines 124-129
DecodeListBegin ==
    /\ Running("decode", "entry")
    /\ Framed(Top.encoded_value, CharL)
    /\ Goto([Top EXCEPT !.pc = "list_loop", !.next_first_index = 1,
                        !.end_index = Len(Top.encoded_value) - 1])

\* lines 143-148
DecodeDictBegin ==
    /\ Running("decode", "entry")
    /\ Framed(Top.encoded_value, CharD)
    /\ Goto([Top EXCEPT !.pc = "dict_loop", !.next_first_index = 1,
                        !.end_index = Len(Top.encoded_value) - 1])

\* lines 177-179
DecodeUnhandled ==
    /\ Running("decode", "entry")
    /\ Len(Top.encoded_value) > 0
    /\ ~IsDigit(Top.encoded_value[1])
    /\ \A c \in {CharI, CharL, CharD} : ~Framed(Top.encoded_value, c)
    /\ Panic("decode: Unhandled encoded value")

\* lines 131-132, 150-151, 166-167: ask where the next element ends
FindEnd(waiting) ==
    Call([Top EXCEPT !.pc = waiting],
         GetEndFrame(Top.encoded_value, Top.next_first_index, Top.end_index))

\* lines 134, 153, 169: decode &encoded_value[next_first_index..=next_end_index]
DecodeElement(waiting) ==
    IF ~RangeOk(Top.encoded_value, Top.next_first_index, ret.idx)
    THEN Panic("decode: slice out of range")
    ELSE Call([Top EXCEPT !.pc = waiting, !.next_end_index = ret.idx],
              DecodeFrame(Slice(Top.encoded_value, Top.next_first_index, ret.idx + 1)))

CursorAfterOffByOne(next_end_index) == next_end_index

\* lines 138, 161, 173: the cursor after the element
CursorAfter(next_end_index) == next_end_index + 1

\* lines 130-132
DecodeListNext ==
    /\ Running("decode", "list_loop")
    /\ Top.next_first_index < Top.end_index
    /\ FindEnd("list_end")

\* line 134
DecodeListElement == Running("decode", "list_end") /\ DecodeElement("list_value")

\* lines 136-138
DecodeListPush ==
    /\ Running("decode", "list_value")
    /\ Goto([Top EXCEPT !.pc = "list_loop", !.values = Append(@, ret),
                        !.next_first_index = CursorAfter(Top.next_end_index)])

\* lines 130, 141
DecodeListDone ==
    /\ Running("decode", "list_loop")
    /\ ~(Top.next_first_index < Top.end_index)
    /\ Return([arr |-> Top.values])

\* lines 149-151
DecodeDictNext ==
    /\ Running("decode", "dict_loop")
    /\ Top.next_first_index < Top.end_index
    /\ FindEnd("dict_key_end")

\* line 153
DecodeDictKeyElement == Running("decode", "dict_key_end") /\ DecodeElement("dict_key")

\* lines 154-167
DecodeDictKey ==
    /\ Running("decode", "dict_key")
    /\ IF "str" \notin DOMAIN ret THEN Panic("decode: key should be a string")
       ELSE IF CursorAfter(Top.next_end_index) >= Top.end_index
       THEN Panic("decode: only key but no value is present")
       ELSE Call([Top EXCEPT !.pc = "dict_value_end", !.key = ret.str,
                             !.next_first_index = CursorAfter(Top.next_end_index)],
                 GetEndFrame(Top.encoded_value, CursorAfter(Top.next_end_index),
                             Top.end_index))

\* line 169
DecodeDictValueElement == Running("decode", "dict_value_end") /\ DecodeElement("dict_value")

\* lines 171-173
DecodeDictInsert ==
    /\ Running("decode", "dict_value")
    /\ Goto([Top EXCEPT !.pc = "dict_loop", !.map = MapInsert(@, Top.key, ret),
                        !.next_first_index = CursorAfter(Top.next_end_index)])

\* lines 149, 176
DecodeDictDone ==
    /\ Running("decode", "dict_loop")
    /\ ~(Top.next_first_index < Top.end_index)
    /\ Return([obj |-> Top.map])

DecodeStep ==
    \/ DecodeEmpty
    \/ DecodeString
    \/ DecodeInteger
    \/ DecodeListBegin
    \/ DecodeDictBegin
    \/ DecodeUnhandled
    \/ DecodeListNext
    \/ DecodeListElement
    \/ DecodeListPush
    \/ DecodeListDone
    \/ DecodeDictNext
    \/ DecodeDictKeyElement
    \/ DecodeDictKey
    \/ DecodeDictValueElement
    \/ DecodeDictInsert
    \/ DecodeDictDone

\* ------------------------------------------------------ the two harnesses

\* the spec's known vectors: "4:spam", "i52e", "i-52e", "l4:spam4:eggse",
\* "d3:cow3:moo4:spam4:eggse"
Spam == <<115, 112, 97, 109>>
Eggs == <<101, 103, 103, 115>>
Cow  == <<99, 111, 119>>
Moo  == <<109, 111, 111>>
KnownTerms ==
    {[bs |-> Spam], [int |-> 52], [int |-> -52],
     [bs |-> Spam \o Eggs \o Spam], [list |-> <<[bs |-> Spam \o Eggs \o Spam], [int |-> 0]>>],
     [list |-> <<[bs |-> Spam], [bs |-> Eggs]>>],
     [dict |-> <<[k |-> Cow, v |-> [bs |-> Moo]], [k |-> Spam, v |-> [bs |-> Eggs]]>>]}

ArbitraryBytes == {CharZero, 49, 50, CharColon, CharMinus, CharD, CharE, CharI, CharL}

\* "5:hi", "i007e", "i+5e", "2:spam"
NamedInputs ==
    {<<53, CharColon, 104, 105>>, <<CharI, 48, 48, 55, CharE>>,
     <<CharI, CharPlus, 53, CharE>>, <<50, CharColon>> \o Spam}

InputOf(src) == IF "term" \in DOMAIN src THEN Encode(src.term) ELSE src.raw

\* decode_bencoded_value(encoded_value) is called on the input src stands for
DecodeCalled(src) ==
    /\ source = src
    /\ call = [fn |-> "decode", encoded_value |-> InputOf(src)]
    /\ stack = <<DecodeFrame(InputOf(src))>>
    /\ ret = [none |-> TRUE]
    /\ status = "running"
    /\ site = ""
    /\ out = <<>>

\* The inputs: the encoding of every generated term and known vector; every byte
\* sequence of up to MaxLen bytes over ArbitraryBytes; every proper prefix of a
\* generated encoding (truncated strings, unterminated integers, lists and dicts,
\* keys without a value); the named inputs.
Init ==
    \/ \E t \in WellFormedTerms \cup KnownTerms : DecodeCalled([term |-> t])
    \/ \E n \in 0..MaxLen : \E s \in [1..n -> ArbitraryBytes] : DecodeCalled([raw |-> s])
    \/ \E t \in WellFormedTerms : \E n \in 0..(EncLen(t) - 1) :
           DecodeCalled([raw |-> SubSeq(Encode(t), 1, n)])
    \/ \E s \in NamedInputs : DecodeCalled([raw |-> s])

Next == DecodeStep \/ GetEndStep

Spec == Init /\ [][Next]_vars

\* a sequential program takes its next step whenever it has one
FairSpec == Spec /\ WF_vars(Next)

\* what stands before and after the term in the buffer get_end is called on
Before == {<<>>, <<CharD, 49, CharColon, 97>>}
After  == {<<>>, <<CharE>>, <<49, CharColon, 97, CharE>>}

\* get_end_index_for_next_datatype(encoded_value, start_index, end_index) is called
GetEndCalled(src, encoded_value, start_index, end_index) ==
    /\ source = src
    /\ call = [fn |-> "get_end", encoded_value |-> encoded_value,
               start_index |-> start_index, end_index |-> end_index]
    /\ stack = <<GetEndFrame(encoded_value, start_index, end_index)>>
    /\ ret = [none |-> TRUE]
    /\ status = "running"
    /\ site = ""
    /\ out = <<>>

\* The calls: with a well-formed term at start_index that ends at or before
\* end_index; and, as decode_bencoded_value calls it on the inside of a list or
\* dict, at any start_index of any buffer with end_index the last index.
GetEndInit ==
    \/ \E t \in WellFormedTerms \cup KnownTerms, b \in Before, a \in After :
           \E end_index \in {Len(b) + EncLen(t) - 1, Len(b) + EncLen(t) + Len(a) - 1} :
               GetEndCalled([term |-> t, before |-> b, after |-> a],
                            b \o Encode(t) \o a, Len(b), end_index)
    \/ \E n \in 1..MaxLen : \E s \in [1..n -> ArbitraryBytes] : \E start_index \in 1..n :
           GetEndCalled([raw |-> s], s, start_index, n - 1)

GetEndSpec == GetEndInit /\ [][GetEndStep]_vars

\* ------------------------------------------------ serde_bencode, as main uses it
\* The crate is not part of the repository; this is what from_bytes and to_bytes do
\* on the files generated below.

\* the 0-based index of the first c at or after pos, -1 when there is none
FindFrom(b, c, pos) ==
    IF \E k \in (pos + 1)..Len(b) : b[k] = c
    THEN (CHOOSE k \in (pos + 1)..Len(b) :
              b[k] = c /\ \A j \in (pos + 1)..(k - 1) : b[j] # c) - 1
    ELSE -1

ParseError == [ok |-> FALSE]

RECURSIVE ParseTerm(_, _), ParseList(_, _, _), ParseDict(_, _, _)
\* one bencode term read from b at pos: [ok, term, next], next the index after it
ParseTerm(b, pos) ==
    IF pos >= Len(b) THEN ParseError
    ELSE IF b[pos + 1] = CharI THEN
        LET e_index == FindFrom(b, CharE, pos + 1)
            number  == ParseI64(Slice(b, pos + 1, e_index))
        IN  IF e_index < 0 \/ ~number.ok THEN ParseError
            ELSE [ok |-> TRUE, term |-> [int |-> number.n], next |-> e_index + 1]
    ELSE IF IsDigit(b[pos + 1]) THEN
        LET colon_index == FindFrom(b, CharColon, pos)
            digits == Slice(b, pos, colon_index)
            len    == DigitsValue(digits)
        IN  IF colon_index < 0 \/ (\E k \in 1..Len(digits) : ~IsDigit(digits[k]))
            THEN ParseError
            ELSE IF colon_index + 1 + len > Len(b) THEN ParseError
            ELSE [ok |-> TRUE, term |-> [bs |-> Slice(b, colon_index + 1, colon_index + 1 + len)],
                  next |-> colon_index + 1 + len]
    ELSE IF b[pos + 1] = CharL THEN ParseList(b, pos + 1, <<>>)
    ELSE IF b[pos + 1] = CharD THEN ParseDict(b, pos + 1, <<>>)
    ELSE ParseError
ParseList(b, pos, items) ==
    IF pos >= Len(b) THEN ParseError
    ELSE IF b[pos + 1] = CharE THEN [ok |-> TRUE, term |-> [list |-> items], next |-> pos + 1]
    ELSE LET item == ParseTerm(b, pos)
         IN  IF ~item.ok THEN ParseError
             ELSE ParseList(b, item.next, Append(items, item.term))
ParseDict(b, pos, pairs) ==
    IF pos >= Len(b) THEN ParseError
    ELSE IF b[pos + 1] = CharE THEN [ok |-> TRUE, term |-> [dict |-> pairs], next |-> pos + 1]
    ELSE LET key == ParseTerm(b, pos)
         IN  IF ~key.ok \/ "bs" \notin DOMAIN key.term THEN ParseError
             ELSE LET value == ParseTerm(b, key.next)
                  IN  IF ~value.ok THEN ParseError
                      ELSE ParseDict(b, value.next,
                                     Append(pairs, [k |-> key.term.bs, v |-> value.term]))

KeyAnnounce    == <<97, 110, 110, 111, 117, 110, 99, 101>>
KeyInfo        == <<105, 110, 102, 111>>
KeyName        == <<110, 97, 109, 101>>
KeyPieces      == <<112, 105, 101, 99, 101, 115>>
KeyPieceLength == <<112, 105, 101, 99, 101, 32, 108, 101, 110, 103, 116, 104>>
KeyLength      == <<108, 101, 110, 103, 116, 104>>

\* String::from_utf8 succeeds.  The bytes of 128 and over used below are 250..255,
\* which no UTF-8 text holds.
Utf8(bytes) == \A k \in 1..Len(bytes) : bytes[k] < 128

\* the values a dict gives for a key, in wire order
ValuesOf(pairs, key) == SelectSeq(pairs, LAMBDA p : p.k = key)

\* a derived Deserialize field: absent, given twice (an error), or given once
Field(pairs, key) ==
    LET given == ValuesOf(pairs, key)
    IN  [count |-> Len(given), v |-> IF Len(given) = 1 THEN given[1].v ELSE [none |-> TRUE]]

IsBytes(v)  == "bs" \in DOMAIN v
IsInt(v)    == "int" \in DOMAIN v
IsDict(v)   == "dict" \in DOMAIN v
\* serde_bytes::ByteBuf also takes a list of u8
IsU8List(v) ==
    "list" \in DOMAIN v
    /\ \A k \in 1..Len(v.list) : IsInt(v.list[k]) /\ v.list[k].int \in 0..255
ByteBufOf(v) == IF IsBytes(v) THEN v.bs ELSE [k \in 1..Len(v.list) |-> v.list[k].int]

\* Info's derived Deserialize (lines 8-15): unknown keys are skipped
InfoFromDict(pairs) ==
    LET name         == Field(pairs, KeyName)
        pieces       == Field(pairs, KeyPieces)
        piece_length == Field(pairs, KeyPieceLength)
        length       == Field(pairs, KeyLength)
    IN  IF /\ name.count = 1 /\ IsBytes(name.v) /\ Utf8(name.v.bs)
           /\ pieces.count = 1 /\ (IsBytes(pieces.v) \/ IsU8List(pieces.v))
           /\ piece_length.count = 1 /\ IsInt(piece_length.v)
           /\ length.count <= 1 /\ (length.count = 1 => IsInt(length.v))
        THEN [ok |-> TRUE,
              info |-> [name |-> name.v.bs, pieces |-> ByteBufOf(pieces.v),
                        piece_length |-> piece_length.v.int,
                        length |-> IF length.count = 1
                                   THEN [some |-> TRUE, n |-> length.v.int]
                                   ELSE [some |-> FALSE, n |-> 0]]]
        ELSE ParseError

\* serde_bencode::from_bytes::<TorrentMetadata> (lines 17-21, 250-251): the first
\* term of the file, which must be a dict of the schema; what follows it is not read
FromBytes(file_contents) ==
    LET top == ParseTerm(file_contents, 0)
    IN  IF ~top.ok \/ ~IsDict(top.term) THEN ParseError
        ELSE LET announce == Field(top.term.dict, KeyAnnounce)
                 info     == Field(top.term.dict, KeyInfo)
             IN  IF /\ announce.count = 1 /\ IsBytes(announce.v) /\ Utf8(announce.v.bs)
                    /\ info.count = 1 /\ IsDict(info.v)
                    /\ InfoFromDict(info.v.dict).ok
                 THEN [ok |-> TRUE,
                       metadata |-> [announce |-> announce.v.bs,
                                     info |-> InfoFromDict(info.v.dict).info]]
                 ELSE ParseError

RECURSIVE BytesLess(_, _)
\* a < b in the order of raw bytes
BytesLess(a, b) ==
    IF Len(b) = 0 THEN FALSE
    ELSE IF Len(a) = 0 THEN TRUE
    ELSE IF a[1] # b[1] THEN a[1] < b[1]
    ELSE BytesLess(Tail(a), Tail(b))

RECURSIVE SortPairs(_)
\* key/value pairs in ascending order of their (distinct) keys
SortPairs(pairs) ==
    IF Len(pairs) = 0 THEN <<>>
    ELSE LET least == CHOOSE k \in 1..Len(pairs) :
                          \A j \in 1..Len(pairs) : j = k \/ BytesLess(pairs[k].k, pairs[j].k)
         IN  <<pairs[least]>>
             \o SortPairs(SelectSeq(pairs, LAMBDA p : p.k # pairs[least].k))

\* the struct's fields in declaration order (lines 10-14); a None is not written
InfoFields(info) ==
    <<[k |-> KeyName, v |-> [bs |-> info.name]],
      [k |-> KeyPieces, v |-> [bs |-> info.pieces]],
      [k |-> KeyPieceLength, v |-> [int |-> info.piece_length]]>>
    \o IF info.length.some THEN <<[k |-> KeyLength, v |-> [int |-> info.length.n]]>> ELSE <<>>

\* serde_bencode::to_bytes(&torrent_metadata.info), line 259: a dict, keys sorted
InfoToBytes(info) == Encode([dict |-> SortPairs(InfoFields(info))])

\* Sha1::new(), update, finalize (lines 261-263).  The digest is kept as the message
\* it is of: digests are equal exactly when the messages are.
Sha1(message) == [sha1_of |-> message]

\* --------------------------------------------------------- main, `info`

\* a frame of main running `info <path>` on a file that was read (lines 240-244)
MainFrame(file_contents) ==
    [fn |-> "main", pc |-> "entry", file_contents |-> file_contents,
     torrent_metadata |-> [none |-> TRUE], rest |-> <<>>]

\* println!: the line's fixed text and the formatted value after it
Line(label, text) == [label |-> label, text |-> text]

Println(frame, line) ==
    /\ stack' = [stack EXCEPT ![Len(stack)] = frame]
    /\ out' = Append(out, line)
    /\ UNCHANGED <<call, source, ret, status, site>>

\* lines 250-251
MainParse ==
    /\ Running("main", "entry")
    /\ LET parsed == FromBytes(Top.file_contents)
       IN  IF ~parsed.ok THEN Panic("main: unwrap on from_bytes")
           ELSE Goto([Top EXCEPT !.pc = "tracker", !.torrent_metadata = parsed.metadata])

\* line 252
MainPrintTracker ==
    /\ Running("main", "tracker")
    /\ Println([Top EXCEPT !.pc = "length"], Line("Tracker URL: ", Top.torrent_metadata.announce))

LengthLineSwapped(info) == Line("Length: ", IntToBytes(info.piece_length))

\* line 254, for a length that is Some
LengthLine(info) == Line("Length: ", IntToBytes(info.length.n))

\* line 254
MainPrintLength ==
    /\ Running("main", "length")
    /\ IF ~Top.torrent_metadata.info.length.some THEN Panic("main: unwrap on length")
       ELSE Println([Top EXCEPT !.pc = "info_hash"], LengthLine(Top.torrent_metadata.info))

HashedBytesWholeFile(frame) == frame.file_contents

\* lines 259-262: what the hasher is fed
HashedBytes(frame) == InfoToBytes(frame.torrent_metadata.info)

\* lines 259-265
MainPrintInfoHash ==
    /\ Running("main", "info_hash")
    /\ Println([Top EXCEPT !.pc = "piece_length"], Line("Info Hash: ", Sha1(HashedBytes(Top))))

\* line 267
MainPrintPieceLength ==
    /\ Running("main", "piece_length")
    /\ Println([Top EXCEPT !.pc = "pieces", !.rest = Top.torrent_metadata.info.pieces],
             Line("Piece Length: ", IntToBytes(Top.torrent_metadata.info.piece_length)))

\* line 269; `rest` is what chunks(20) has not yielded yet
MainPrintHeader ==
    /\ Running("main", "pieces")
    /\ Println([Top EXCEPT !.pc = "chunks"], Line("Piece Hashes:", <<>>))

\* chunks(20), line 270
ChunkSize == 20

\* the next chunk: ChunkSize bytes, or all that is left when that is less
NextChunk(rest) == SubSeq(rest, 1, IF Len(rest) < ChunkSize THEN Len(rest) ELSE ChunkSize)

HexDigit(n) == IF n < 10 THEN CharZero + n ELSE 87 + n

FormatByteUnpadded(byte) ==
    IF byte < 16 THEN <<HexDigit(byte)>> ELSE <<HexDigit(byte \div 16), HexDigit(byte % 16)>>

\* format!("{:02x}", byte), line 273
FormatByte(byte) == <<HexDigit(byte \div 16), HexDigit(byte % 16)>>

RECURSIVE HexJoin(_)
\* lines 271-275: every byte formatted, the pieces joined with ""
HexJoin(bytes) ==
    IF Len(bytes) = 0 THEN <<>> ELSE FormatByte(Head(bytes)) \o HexJoin(Tail(bytes))

\* lines 270-276, one turn of the loop
MainPrintPieceHash ==
    /\ Running("main", "chunks")
    /\ Len(Top.rest) > 0
    /\ Println([Top EXCEPT !.rest = SubSeq(@, Len(NextChunk(@)) + 1, Len(@))],
             Line("", HexJoin(NextChunk(Top.rest))))

\* the loop is over; main returns
MainReturn ==
    /\ Running("main", "chunks")
    /\ Len(Top.rest) = 0
    /\ Return([unit |-> TRUE])

MainStep ==
    \/ MainParse
    \/ MainPrintTracker
    \/ MainPrintLength
    \/ MainPrintInfoHash
    \/ MainPrintPieceLength
    \/ MainPrintHeader
    \/ MainPrintPieceHash
    \/ MainReturn

\* ----------------------------------------------------------- torrent files

\* the longest pieces buffer
MaxPieces == 40

\* a buffer of n bytes: first, first + 1, ... (mod 256)
Buffer(first, n) == [k \in 1..n |-> (first + k - 1) % 256]

Orderings(S) ==
    {p \in [1..Cardinality(S) -> S] : \A i, j \in 1..Cardinality(S) : p[i] = p[j] => i = j}

Url1  == <<104, 116, 116, 112, 58, 47, 47, 116, 46, 99, 111, 47, 97>>
Url2  == <<117, 100, 112, 58, 47, 47, 120>>
Name1 == <<115, 46, 116, 120, 116>>

\* the info dictionary's logical content
Contents(pieces, piece_length, length) ==
    [name |-> Name1, pieces |-> pieces, piece_length |-> piece_length, length |-> length]

\* the info dictionary's own pairs, as a set
InfoPairs(c) ==
    {[k |-> KeyName, v |-> [bs |-> c.name]],
     [k |-> KeyPieces, v |-> [bs |-> c.pieces]],
     [k |-> KeyPieceLength, v |-> [int |-> c.piece_length]]}
    \cup IF c.length.some THEN {[k |-> KeyLength, v |-> [int |-> c.length.n]]} ELSE {}

\* keys the schema does not know, at the top level and inside info
ExtraTop  == [k |-> <<99, 111, 109, 109, 101, 110, 116>>, v |-> [list |-> <<[bs |-> Url2], [int |-> 7]>>]]
ExtraInfo == [k |-> <<112, 114, 105, 118, 97, 116, 101>>, v |-> [int |-> 1]]

\* a file: the content, the tracker URL, the info pairs in some order, info before
\* or after announce, the unknown keys or not, and bytes after the dict
FileOf(f) ==
    LET info  == [k |-> KeyInfo,
                  v |-> [dict |-> f.order \o IF f.extra THEN <<ExtraInfo>> ELSE <<>>]]
        ann   == [k |-> KeyAnnounce, v |-> [bs |-> f.announce]]
        pairs == (IF f.info_first THEN <<info, ann>> ELSE <<ann, info>>)
                 \o IF f.extra THEN <<ExtraTop>> ELSE <<>>
    IN  Encode([dict |-> pairs]) \o f.trailing

Layouts(c, announces, extras, trailings) ==
    {[content |-> c, announce |-> a, order |-> o, info_first |-> i, extra |-> x, trailing |-> t] :
        a \in announces, o \in Orderings(InfoPairs(c)), i \in BOOLEAN,
        x \in extras, t \in trailings}

Some(n) == [some |-> TRUE, n |-> n]
None    == [some |-> FALSE, n |-> 0]

\* every pieces buffer of up to MaxPieces bytes, in every order of the info keys
PiecesFiles ==
    UNION {Layouts(Contents(Buffer(first, n), 32768, Some(92063)), {Url1}, {FALSE}, {<<>>}) :
           first \in {0, 250}, n \in 0..MaxPieces}

\* every layout of a few contents
LayoutFiles ==
    UNION {Layouts(Contents(Buffer(first, ChunkSize), piece_length, length),
                   {Url1, Url2}, BOOLEAN, {<<>>, <<CharE, 120>>}) :
           first \in {0, 250}, piece_length \in {1, 32768}, length \in {None, Some(0), Some(92063)}}

ValidFiles == PiecesFiles \cup LayoutFiles

\* files that are not of the schema, or not bencode
BrokenFiles ==
    {<<>>, <<120>>, <<CharI, 49, CharE>>, <<CharD, CharE>>,
     Encode([dict |-> <<[k |-> KeyAnnounce, v |-> [bs |-> Url1]]>>]),
     Encode([dict |-> <<[k |-> KeyAnnounce, v |-> [int |-> 1]],
                        [k |-> KeyInfo, v |-> [dict |-> <<>>]]>>]),
     Encode([dict |-> <<[k |-> KeyAnnounce, v |-> [bs |-> Url1]],
                        [k |-> KeyInfo, v |-> [bs |-> Name1]]>>]),
     Encode([dict |-> <<[k |-> KeyAnnounce, v |-> [bs |-> <<250>>]],
                        [k |-> KeyInfo, v |-> [dict |-> <<>>]]>>])}
    \cup {SubSeq(FileOf(f), 1, n) :
            f \in Layouts(Contents(Buffer(0, 2), 1, Some(2)), {Url1}, {FALSE}, {<<>>}),
            n \in {10, 30, 60}}

InfoSources == {[file |-> f] : f \in ValidFiles} \cup {[raw |-> b] : b \in BrokenFiles}

FileBytes(src) == IF "file" \in DOMAIN src THEN FileOf(src.file) ELSE src.raw

\* main is run as `info <path>` on a file that can be read
InfoInit ==
    \E src \in InfoSources :
        /\ source = src
        /\ call = [fn |-> "info", file_contents |-> FileBytes(src)]
        /\ stack = <<MainFrame(FileBytes(src))>>
        /\ ret = [none |-> TRUE]
        /\ status = "running"
        /\ site = ""
        /\ out = <<>>

InfoSpec == InfoInit /\ [][MainStep]_vars

\* ------------------------------------------------------------ the claims

Finished == status # "running"

\* a typed error value handed back to the caller (a Result's Err)
FailsWith(kind) == status = "returned" /\ ret = [err |-> kind]

\* C1: decoding a well-formed input returns the value it encodes: a list's
\* elements in input order, a dict's key/value pairs, at any nesting depth; and the
\* spec's five known vectors decode to the values the spec gives.
C1_DecodesWellFormed ==
    /\ (Finished /\ "term" \in DOMAIN source) =>
           (status = "returned" /\ ret = ToJson(source.term))
    /\ (Finished /\ call.encoded_value = <<52, CharColon>> \o Spam) => ret = [str |-> Spam]
    /\ (Finished /\ call.encoded_value = <<CharI, 53, 50, CharE>>) => ret = [num |-> 52]
    /\ (Finished /\ call.encoded_value = <<CharI, CharMinus, 53, 50, CharE>>) =>
           ret = [num |-> -52]
    /\ (Finished /\ call.encoded_value =
            <<CharL, 52, CharColon>> \o Spam \o <<52, CharColon>> \o Eggs \o <<CharE>>) =>
           ret = [arr |-> <<[str |-> Spam], [str |-> Eggs]>>]
    /\ (Finished /\ call.encoded_value =
            <<CharD, 51, CharColon>> \o Cow \o <<51, CharColon>> \o Moo
                \o <<52, CharColon>> \o Spam \o <<52, CharColon>> \o Eggs \o <<CharE>>) =>
           ret = [obj |-> (Cow :> [str |-> Moo]) @@ (Spam :> [str |-> Eggs])]

\* the dict vector has been decoded
C1_Witness ==
    /\ status = "returned"
    /\ Len(call.encoded_value) = 24
    /\ ret = [obj |-> (Cow :> [str |-> Moo]) @@ (Spam :> [str |-> Eggs])]

\* "<n>:" and then whatever follows: the declared length and the bytes after the colon
IsStringInput(ev) ==
    /\ Find(ev, CharColon) > 0
    /\ \A k \in 1..Find(ev, CharColon) : IsDigit(ev[k])
DeclaredLen(ev) == DigitsValue(Slice(ev, 0, Find(ev, CharColon)))
AfterColon(ev)  == Slice(ev, Find(ev, CharColon) + 1, Len(ev))

\* C2: a byte string "<n>:<payload>" decodes to exactly the n bytes after the
\* colon, and fails with TruncatedString when fewer than n bytes follow the colon.
C2_StringLength ==
    (Finished /\ IsStringInput(call.encoded_value)) =>
        IF Len(AfterColon(call.encoded_value)) < DeclaredLen(call.encoded_value)
        THEN FailsWith("TruncatedString")
        ELSE status = "returned"
             /\ ret = [str |-> SubSeq(AfterColon(call.encoded_value), 1,
                                     DeclaredLen(call.encoded_value))]

\* C3: no input makes the decoder abort: every failure is an error value returned
\* to the caller.
C3_NeverAborts == status # "panicked"

\* the integer syntax of the format: an optional '-', then digits, no leading zero
\* unless the text is "0", and not "-0"
CanonicalInteger(text) ==
    LET digits == IF StartsWith(text, CharMinus) THEN SubSeq(text, 2, Len(text)) ELSE text
    IN  /\ Len(digits) > 0
        /\ \A k \in 1..Len(digits) : IsDigit(digits[k])
        /\ digits[1] = CharZero => (Len(digits) = 1 /\ ~StartsWith(text, CharMinus))

\* C8: "i<text>e" yields an integer only for a <text> of the format's integer
\* syntax: an optional '-', then digits, no leading zero unless the text is "0", and
\* not "-0".  Every other <text> fails instead of yielding an integer.
C8_IntegerSyntax ==
    (Finished /\ Framed(call.encoded_value, CharI)
              /\ ~CanonicalInteger(IntegerText(call.encoded_value))) =>
        ~(status = "returned" /\ "num" \in DOMAIN ret)

\* C9: called at the first byte of a well-formed term that ends at or before
\* end_index, get_end_index_for_next_datatype returns the whole-buffer index of the
\* term's last byte, whatever start_index is and however deep the term nests.
C9_EndOfTerm ==
    (Finished /\ "term" \in DOMAIN source) =>
        (status = "returned" /\ ret = [idx |-> call.start_index + EncLen(source.term) - 1])

\* "ld0:leee" after "d1:a" and before "1:ae": the dict in the list holds an empty
\* string and an empty list; the scan stopped short of end_index
C9_Witness ==
    /\ status = "returned"
    /\ "term" \in DOMAIN source
    /\ source.term = [list |-> << [dict |-> << [k |-> << >>, v |-> [list |-> << >>]] >>] >>]
    /\ call.start_index = 4
    /\ call.end_index = 15
    /\ ret = [idx |-> 11]

\* the bytes a frame still has to look at
Remaining(f) ==
    IF f.fn = "decode" THEN Len(f.encoded_value) ELSE f.end_index + 1 - f.start_index

\* the cursor of a frame's loop
Cursor(f) == IF f.fn = "decode" THEN f.next_first_index ELSE f.next_index

\* a call is made on a strictly shorter range than the caller's
CallShrinks ==
    Len(stack') = Len(stack) + 1 => Remaining(stack'[Len(stack')]) < Remaining(Top)

\* a frame that comes back to the head of its loop has moved its cursor forward
LoopAdvances ==
    (Len(stack') = Len(stack) /\ status' = "running"
        /\ stack'[Len(stack')].pc \in {"list_loop", "dict_loop", "list_scan", "dict_scan"})
    => Cursor(stack'[Len(stack')]) > Cursor(Top)

\* C10: on every input, well-formed or not, the decoder finishes, by returning or
\* by failing: every call is on a strictly shorter range, every turn of a scanning
\* loop moves its cursor forward.
C10_Terminates == [][CallShrinks /\ LoopAdvances]_vars /\ <>Finished

\* a malformed nested list has been scanned three frames deep, one scanning loop
\* has gone round, and the scan has failed
C10_Witness ==
    /\ status = "panicked"
    /\ "raw" \in DOMAIN source
    /\ Len(stack) >= 4
    /\ \E i \in 2..Len(stack) : stack[i].fn = "get_end" /\ stack[i].next_index > 1

\* what a generated file was built from
FromFile == "file" \in DOMAIN source
Content  == source.file.content

\* the lines after the first five: the piece hashes
PieceLines == SubSeq(out, 6, Len(out))

\* chunk i (0-based) of a buffer: bytes [20 * i, 20 * i + 20), fewer at the end
ChunkOf(pieces, i) ==
    SubSeq(pieces, ChunkSize * i + 1,
           IF ChunkSize * (i + 1) < Len(pieces) THEN ChunkSize * (i + 1) ELSE Len(pieces))

\* how many chunks a buffer has, a short last one counted
ChunkCount(pieces) == (Len(pieces) + ChunkSize - 1) \div ChunkSize

IsLowerHex(text) == \A k \in 1..Len(text) : text[k] \in (48..57) \cup (97..102)
UnhexDigit(c) == IF c <= CharNine THEN c - CharZero ELSE c - 87
\* the bytes a line of lowercase hex digits stands for
Unhex(text) ==
    [k \in 1..(Len(text) \div 2) |-> 16 * UnhexDigit(text[2 * k - 1]) + UnhexDigit(text[2 * k])]

RECURSIVE JoinTexts(_)
JoinTexts(lines) ==
    IF Len(lines) = 0 THEN <<>> ELSE Head(lines).text \o JoinTexts(Tail(lines))

\* C4: a pieces buffer whose length is not a multiple of 20 is refused with
\* MalformedPieceBuffer and no piece hash is printed, a short last one least of all.
C4_RaggedPiecesRefused ==
    (FromFile /\ Len(Content.pieces) % ChunkSize # 0) =>
        /\ PieceLines = <<>>
        /\ Finished => FailsWith("MalformedPieceBuffer")

\* C5: a pieces buffer of 20 * k bytes is printed as k hashes of 20 bytes each, hash
\* i being bytes [20 * i, 20 * i + 20) of the buffer, in increasing i; joined, the
\* hashes are the buffer.
C5_PieceHashes ==
    (FromFile /\ Len(Content.pieces) % ChunkSize = 0) =>
        /\ Len(PieceLines) <= Len(Content.pieces) \div ChunkSize
        /\ \A i \in 1..Len(PieceLines) :
              /\ Len(PieceLines[i].text) = 2 * ChunkSize
              /\ IsLowerHex(PieceLines[i].text)
              /\ Unhex(PieceLines[i].text) = ChunkOf(Content.pieces, i - 1)
        /\ status = "returned" =>
              /\ Len(PieceLines) = Len(Content.pieces) \div ChunkSize
              /\ Unhex(JoinTexts(PieceLines)) = Content.pieces

\* 40 bytes, 250..255 and then 0..33, have been printed as two hashes
C5_Witness ==
    /\ status = "returned"
    /\ FromFile
    /\ Len(PieceLines) = 2
    /\ Content.pieces = Buffer(250, 2 * ChunkSize)

\* the canonical encoding of an info dictionary's content: its keys in byte order
CanonicalInfo(c) ==
    <<CharD>>
    \o (IF c.length.some
        THEN Encode([bs |-> KeyLength]) \o Encode([int |-> c.length.n]) ELSE <<>>)
    \o Encode([bs |-> KeyName]) \o Encode([bs |-> c.name])
    \o Encode([bs |-> KeyPieceLength]) \o Encode([int |-> c.piece_length])
    \o Encode([bs |-> KeyPieces]) \o Encode([bs |-> c.pieces])
    \o <<CharE>>

\* C6: the info-hash printed is a function of the info dictionary's name, piece
\* length, pieces and length alone: the digest of their canonical encoding, whatever
\* the announce URL, the order of the keys in the file, the keys the schema does not
\* know and the bytes after the dictionary.  Two files that agree on the four print
\* the same digest, and so does a second run on the same file.
C6_InfoHashOfContent ==
    (FromFile /\ Len(out) >= 3) =>
        out[3] = Line("Info Hash: ", Sha1(CanonicalInfo(Content)))

\* the hash was printed for a file with info first, pieces as the first info key,
\* unknown keys and trailing bytes
C6_Witness ==
    /\ FromFile
    /\ Len(out) >= 3
    /\ source.file.info_first
    /\ source.file.extra
    /\ source.file.trailing # <<>>
    /\ source.file.order[1].k = KeyPieces
    /\ source.file.announce = Url2

\* the labels of the lines printed, in order
Labels == [k \in 1..Len(out) |-> out[k].label]

\* C7: for a valid file, `info` prints the tracker URL, the length, the info-hash,
\* the piece length and then one line per piece hash, with nothing in between.
C7_LinesInOrder ==
    (FromFile /\ status = "returned") =>
        /\ Len(out) = 4 + ChunkCount(Content.pieces)
        /\ SubSeq(Labels, 1, 4) = <<"Tracker URL: ", "Length: ", "Info Hash: ", "Piece Length: ">>
        /\ \A k \in 5..Len(out) : out[k].label = ""

\* the lines `info` prints for a file, the info-hash line's digest left open
ExpectedLabels(f) ==
    <<"Tracker URL: ", "Length: ", "Info Hash: ", "Piece Length: ", "Piece Hashes:">>
    \o [k \in 1..ChunkCount(f.content.pieces) |-> ""]
ExpectedValue(f, k) ==
    IF k = 1 THEN f.announce
    ELSE IF k = 2 THEN IntToBytes(f.content.length.n)
    ELSE IF k = 4 THEN IntToBytes(f.content.piece_length)
    ELSE IF k = 5 THEN <<>>
    ELSE ChunkOf(f.content.pieces, k - 6)

\* C7, amended: for a file of the schema that has a length, `info` prints, in this
\* order and nothing else: the tracker URL, the length, the info-hash, the piece
\* length, the line "Piece Hashes:", and then one line per 20-byte chunk of pieces in
\* piece order, each chunk once.  At every moment what has been printed is a prefix
\* of that.
C7_LinesInOrderWithHeader ==
    FromFile =>
        /\ Len(out) <= Len(ExpectedLabels(source.file))
        /\ Labels = SubSeq(ExpectedLabels(source.file), 1, Len(out))
        /\ \A k \in 1..Len(out) :
              \/ k = 3
              \/ (IF k > 5 THEN Unhex(out[k].text) ELSE out[k].text)
                     = ExpectedValue(source.file, k)
        /\ (Finished /\ Content.length.some) =>
              (status = "returned" /\ Len(out) = Len(ExpectedLabels(source.file)))

\* all seven lines were printed for a file of two pieces, its info dictionary first
C7_Witness ==
    /\ FromFile
    /\ status = "returned"
    /\ Len(out) = 7
    /\ Len(Content.pieces) = 2 * ChunkSize
    /\ source.file.info_first

====
